---- MODULE Spec2Model ----
(***************************************************************************)
(* Model of src/main.py: the /images aggregator (Commons, then Wikipedia,  *)
(* then placeholders) and the /test diagnostics endpoint.                  *)
(*                                                                         *)
(* Strings that the code builds or cuts are sequences of tokens, so that   *)
(* replace, strip, slicing and f-string formatting are computed.  The      *)
(* empty sequence << >> stands for a falsy value (None or "").             *)
(***************************************************************************)
EXTENDS Integers, Sequences, FiniteSets, TLC

\* ---------------------------------------------------------------- bounds
MaxPages == 3          \* most pages an upstream answer holds in the model

\* ------------------------------------------------------ program constants
LimitMin == 1          \* Query(24, ge=1, ...)
LimitMax == 50         \* Query(24, ..., le=50)
GsrLimitCap == 50      \* "gsrlimit": min(limit, 50)
EmptyPlaceholderCap == 12   \* range(min(limit, 12))
FallbackCount == 6     \* range(6)
PlaceholderWidth == 800
PlaceholderHeight == 600
MsgCut == 50           \* str(e)[:50]
CollectionsCut == 10   \* collections[:10]

Min(a, b) == IF a < b THEN a ELSE b

None == << >>
Truthy(v) == v # << >>
\* Python's `a or b`
Or(a, b) == IF Truthy(a) THEN a ELSE b

\* ------------------------------------------------------------ string ops
\* str.replace(old, "") on a token sequence
RemoveToken(s, tok) == SelectSeq(s, LAMBDA t : t # tok)

\* str.replace(' ', '_')
SpaceToUnderscore(s) == [i \in 1..Len(s) |-> IF s[i] = " " THEN "_" ELSE s[i]]

RECURSIVE LStrip(_)
LStrip(s) == IF s # << >> /\ Head(s) = " " THEN LStrip(Tail(s)) ELSE s

RECURSIVE RStrip(_)
RStrip(s) ==
    IF s # << >> /\ s[Len(s)] = " " THEN RStrip(SubSeq(s, 1, Len(s) - 1)) ELSE s

\* str.strip()
Strip(s) == LStrip(RStrip(s))

\* s[:n]
Cut(s, n) == SubSeq(s, 1, Min(Len(s), n))

\* ------------------------------------------------------ upstream answers
\* URLs are <<host, path, width>>.
UrlA == <<"upload.wikimedia.org", "a.jpg", 800>>
UrlB == <<"upload.wikimedia.org", "b.jpg", 800>>
UrlC == <<"upload.wikimedia.org", "c.jpg", 600>>
UrlD == <<"upload.wikimedia.org", "d.jpg", 600>>

\* Pages of a Commons answer (data["query"]["pages"], keyed by pageid).
CommonsPages ==
    { [pageid |-> "1", title |-> <<"File:", "Cat", ".jpg">>,
       thumburl |-> UrlA, url |-> UrlB,
       fullurl |-> <<"commons.wikimedia.org/wiki/", "File:Cat.jpg">>,
       artist |-> <<"Ann">>],
      [pageid |-> "2", title |-> <<" ", "File:", "Big", " ", "cat", " ">>,
       thumburl |-> None, url |-> UrlA, fullurl |-> None, artist |-> None],
      [pageid |-> "3", title |-> <<"File:", "Nothing">>,
       thumburl |-> None, url |-> None, fullurl |-> None, artist |-> <<"Bob">>],
      [pageid |-> "4", title |-> <<"File:", "Dog">>,
       thumburl |-> UrlB, url |-> None, fullurl |-> None, artist |-> None] }

\* Pages of a Wikipedia answer.
WikiPages ==
    { [pageid |-> "11", title |-> <<"Cat">>, thumb |-> UrlA,
       extract |-> <<"The cat is a mammal.">>,
       fullurl |-> <<"en.wikipedia.org/wiki/", "Cat">>],
      [pageid |-> "12", title |-> <<"Felidae">>, thumb |-> UrlC,
       extract |-> None, fullurl |-> None],
      [pageid |-> "13", title |-> <<"Catalan">>, thumb |-> None,
       extract |-> <<"A language.">>, fullurl |-> None],
      [pageid |-> "14", title |-> <<"Lion">>, thumb |-> UrlC,
       extract |-> <<"A big cat.">>, fullurl |-> None],
      [pageid |-> "15", title |-> <<"Tiger">>, thumb |-> UrlD,
       extract |-> None, fullurl |-> None] }

\* An answer is an ordered dict of pages: no pageid twice, and no more pages
\* than the gsrlimit the request asked for.
RECURSIVE Answers(_, _)
Answers(pages, n) ==
    IF n = 0 THEN { << >> }
    ELSE LET shorter == Answers(pages, n - 1)
         IN shorter \cup
            { Append(s, p) : s \in { t \in shorter : Len(t) = n - 1 },
                             p \in pages }

Distinct(s) == \A i, j \in 1..Len(s) : i # j => s[i].pageid # s[j].pageid

GsrLimit(lim) == Min(lim, GsrLimitCap)

AllCommonsAnswers == { s \in Answers(CommonsPages, MaxPages) : Distinct(s) }
AllWikiAnswers == { s \in Answers(WikiPages, MaxPages) : Distinct(s) }

CommonsAnswers(lim) == { s \in AllCommonsAnswers : Len(s) <= GsrLimit(lim) }

WikiAnswers(lim) == { s \in AllWikiAnswers : Len(s) <= GsrLimit(lim) }

\* Texts of the faults requests.get / raise_for_status / r.json can raise.
Faults == { <<"timeout">>, <<"503 Server Error">>, <<"Expecting value">> }

\* ------------------------------------------------ search_commons_images
CommonsItem(page) ==
    [title |-> Strip(RemoveToken(page.title, "File:")),
     thumbnail |-> Or(page.thumburl, page.url),
     pageUrl |-> Or(page.fullurl,
                    <<"commons.wikimedia.org/wiki/">> \o SpaceToUnderscore(page.title)),
     summary |-> IF Truthy(page.artist) THEN <<"By ">> \o page.artist ELSE None,
     source |-> "wikimedia_commons"]

RECURSIVE search_commons_images(_)
search_commons_images(pages) ==
    IF pages = << >> THEN << >>
    ELSE IF ~Truthy(Or(Head(pages).thumburl, Head(pages).url))
         THEN search_commons_images(Tail(pages))
         ELSE <<CommonsItem(Head(pages))>> \o search_commons_images(Tail(pages))

\* ------------------------------------------------ search_wikipedia_pages
WikiItem(page) ==
    [title |-> page.title,
     thumbnail |-> page.thumb,
     pageUrl |-> Or(page.fullurl, <<"en.wikipedia.org/?curid=", page.pageid>>),
     summary |-> page.extract,
     source |-> "wikipedia"]

RECURSIVE search_wikipedia_pages(_)
search_wikipedia_pages(pages) ==
    IF pages = << >> THEN << >>
    ELSE IF ~Truthy(Head(pages).thumb)
         THEN search_wikipedia_pages(Tail(pages))
         ELSE <<WikiItem(Head(pages))>> \o search_wikipedia_pages(Tail(pages))

\* ------------------------------------------------------------ get_images
Queries == { <<"cat">>, <<"big", " ", "cat">> }
RawQueries == Queries \cup { << >> }
RawLimits == (LimitMin - 1) .. (LimitMax + 1)

\* f"https://picsum.photos/seed/{query}-{i}/800/600"
PlaceholderUrl(q, i) ==
    <<"picsum.photos/seed/", q \o <<"-">>, i, PlaceholderWidth, PlaceholderHeight>>

\* the list comprehension of lines 175-184 and 189-198, for i in range(n)
Placeholder(q, i, text) ==
    [title |-> <<"Placeholder #", i + 1>>,
     thumbnail |-> PlaceholderUrl(q, i),
     pageUrl |-> <<"picsum.photos/">>,
     summary |-> text,
     source |-> "picsum"]

PlaceholdersSameSeed(q, n, text) == [k \in 1..n |-> Placeholder(q, 0, text)]

Placeholders(q, n, text) == [k \in 1..n |-> Placeholder(q, k - 1, text)]

\* Query(..., min_length=1) and Query(24, ge=1, le=50)
ValidRequest(q, lim) == Len(q) >= 1 /\ lim >= LimitMin /\ lim <= LimitMax

NeedsTopUpInclusive(its, lim) == Len(its) <= lim
NeedsTopUpAlways(its, lim) == TRUE

\* line 164
NeedsTopUp(its, lim) == Len(its) < lim

\* the loop without seen.add(...)
RECURSIVE TopUpNoSeenAdd(_, _, _, _)
TopUpNoSeenAdd(its, seen, wiki, lim) ==
    IF wiki = << >> THEN its
    ELSE LET w == Head(wiki)
         IN IF w.thumbnail \notin seen /\ Len(its) < lim
            THEN TopUpNoSeenAdd(Append(its, w), seen, Tail(wiki), lim)
            ELSE TopUpNoSeenAdd(its, seen, Tail(wiki), lim)

\* the loop without the `len(items) < limit` test
RECURSIVE TopUpNoLimit(_, _, _, _)
TopUpNoLimit(its, seen, wiki, lim) ==
    IF wiki = << >> THEN its
    ELSE LET w == Head(wiki)
         IN IF w.thumbnail \notin seen
            THEN TopUpNoLimit(Append(its, w), seen \cup {w.thumbnail}, Tail(wiki), lim)
            ELSE TopUpNoLimit(its, seen, Tail(wiki), lim)

\* lines 167-171: the loop over wiki_items
RECURSIVE TopUp(_, _, _, _)
TopUp(its, seen, wiki, lim) ==
    IF wiki = << >> THEN its
    ELSE LET w == Head(wiki)
         IN IF w.thumbnail \notin seen /\ Len(its) < lim
            THEN TopUp(Append(its, w), seen \cup {w.thumbnail}, Tail(wiki), lim)
            ELSE TopUp(its, seen, Tail(wiki), lim)

Thumbnails(its) == { its[i].thumbnail : i \in 1..Len(its) }

EmptyCountOffByOne(lim) == Min(lim, EmptyPlaceholderCap) - 1
EmptyCountFixed(lim) == FallbackCount

\* lines 174-184
EmptyCount(lim) == Min(lim, EmptyPlaceholderCap)

OrPlaceholders(its, q, lim) ==
    IF its = << >>
    THEN Placeholders(q, EmptyCount(lim),
                      <<"Placeholder image while we find results">>)
    ELSE its

NoError == <<"<absent>">>

\* line 186
OkResponse(q, its) ==
    [status |-> 200, query |-> q, count |-> Len(its), items |-> its,
     error |-> NoError]

ErrorResponseSilent(q, fault) ==
    LET fallback == Placeholders(q, FallbackCount,
                        <<"Placeholder image due to an error fetching results">>)
    IN [status |-> 200, query |-> q, count |-> Len(fallback), items |-> fallback,
        error |-> NoError]

\* lines 188-199
ErrorResponse(q, fault) ==
    LET fallback == Placeholders(q, FallbackCount,
                        <<"Placeholder image due to an error fetching results">>)
    IN [status |-> 200, query |-> q, count |-> Len(fallback), items |-> fallback,
        error |-> fault]

\* FastAPI's answer to a request the Query validators reject
Rejected(q) ==
    [status |-> 422, query |-> q, count |-> 0, items |-> << >>, error |-> NoError]

NoResponse ==
    [status |-> 0, query |-> << >>, count |-> 0, items |-> << >>, error |-> NoError]

\* --------------------------------------------------------- test_database
ShortMsg == <<"b", "o", "o", "m">>
LongMsg == [i \in 1..(MsgCut + 1) |-> IF i <= MsgCut THEN "x" ELSE "y"]
Messages == { ShortMsg, LongMsg }

FewCollections == <<"users", "posts">>
ManyCollections ==
    [i \in 1..(CollectionsCut + 1) |-> IF i <= CollectionsCut THEN "c" ELSE "last"]

\* what `from database import db` and the calls on db can do
ImportOutcomes ==
    { [kind |-> "ImportError", msg |-> <<"No module named 'database'">>,
       has_name |-> FALSE, name |-> None, lists |-> FALSE, collections |-> << >>] }
    \cup { [kind |-> "Exception", msg |-> m,
            has_name |-> FALSE, name |-> None, lists |-> FALSE, collections |-> << >>]
           : m \in Messages }
    \cup { [kind |-> "NoneDb", msg |-> None,
            has_name |-> FALSE, name |-> None, lists |-> FALSE, collections |-> << >>] }
    \cup { [kind |-> "Db", msg |-> None, has_name |-> h,
            name |-> IF h THEN <<"appdb">> ELSE None,
            lists |-> TRUE, collections |-> c]
           : h \in BOOLEAN, c \in { << >>, FewCollections, ManyCollections } }
    \cup { [kind |-> "Db", msg |-> m, has_name |-> h,
            name |-> IF h THEN <<"appdb">> ELSE None,
            lists |-> FALSE, collections |-> << >>]
           : h \in BOOLEAN, m \in Messages }

\* an environment variable is unset, empty, or holds text
Unset == <<"<unset>">>
EnvValues == { Unset, << >>, <<"mongodb://h/appdb">> }

\* os.getenv(name)
getenv(v) == IF v = Unset THEN None ELSE v

\* lines 28-35
InitialTestResponse ==
    [backend |-> <<"Running">>,
     database |-> <<"Not Available">>,
     database_url |-> None,
     database_name |-> None,
     connection_status |-> <<"Not Connected">>,
     collections |-> << >>]

DbNotFound == <<"Database module not found (run enable-database first)">>

\* `except Exception` tried before `except ImportError`
AfterImportGeneric(r, imp) ==
    IF imp.kind \in {"ImportError", "Exception"}
    THEN [r EXCEPT !.database = <<"Error: ">> \o Cut(imp.msg, MsgCut)]
    ELSE r

\* lines 37-60
AfterImport(r, imp) ==
    IF imp.kind = "ImportError" THEN [r EXCEPT !.database = DbNotFound]
    ELSE IF imp.kind = "Exception"
    THEN [r EXCEPT !.database = <<"Error: ">> \o Cut(imp.msg, MsgCut)]
    ELSE IF imp.kind = "NoneDb"
    THEN [r EXCEPT !.database = <<"Available but not initialized">>]
    ELSE LET r1 == [r EXCEPT !.database = <<"Available">>,
                             !.database_url = <<"Configured">>,
                             !.database_name =
                                 IF imp.has_name THEN imp.name ELSE <<"Connected">>,
                             !.connection_status = <<"Connected">>]
         IN IF imp.lists
            THEN [r1 EXCEPT !.collections = Cut(imp.collections, CollectionsCut),
                            !.database = <<"Connected & Working">>]
            ELSE [r1 EXCEPT !.database =
                                <<"Connected but Error: ">> \o Cut(imp.msg, MsgCut)]

\* lines 62-65
AfterEnv(r, url, name) ==
    [r EXCEPT !.database_url =
                  IF Truthy(getenv(url)) THEN <<"Set">> ELSE <<"Not Set">>,
              !.database_name =
                  IF Truthy(getenv(name)) THEN <<"Set">> ELSE <<"Not Set">>]

test_database(imp, url, name) == AfterEnv(AfterImport(InitialTestResponse, imp), url, name)

\* no /test request has been served yet
NoTestRequest ==
    [import |-> [kind |-> "none", msg |-> None, has_name |-> FALSE, name |-> None,
                 lists |-> FALSE, collections |-> << >>],
     DATABASE_URL |-> Unset, DATABASE_NAME |-> Unset]

VARIABLES
    test_input,     \* what the last /test request found: import outcome, environment
    test_response,  \* the return value of the last /test request
    pc,             \* position of the /images handler
    query, limit,   \* the request's parameters
    items,          \* the local `items`
    commons_items,  \* what search_commons_images returned (line 161)
    wiki_items,     \* what search_wikipedia_pages returned (line 165)
    calls,          \* outbound calls of the request, in order
    fault,          \* text of the exception caught at line 188, or None
    response        \* the handler's return value

images_vars == <<pc, query, limit, items, commons_items, wiki_items, calls, fault, response>>
test_vars == <<test_input, test_response>>
vars == <<images_vars, test_vars>>

Init ==
    /\ pc = "idle"
    /\ query = << >>
    /\ limit = LimitMin
    /\ items = << >>
    /\ commons_items = << >>
    /\ wiki_items = << >>
    /\ calls = << >>
    /\ fault = None
    /\ response = NoResponse
    /\ test_input = NoTestRequest
    /\ test_response = InitialTestResponse

\* A request arrives; FastAPI validates the query parameters (line 154).
Request(q, lim) ==
    /\ UNCHANGED test_vars
    /\ pc = "idle"
    /\ query' = q
    /\ limit' = lim
    /\ items' = << >>
    /\ commons_items' = << >>
    /\ wiki_items' = << >>
    /\ calls' = << >>
    /\ fault' = None
    /\ IF ValidRequest(q, lim)
       THEN pc' = "commons" /\ response' = NoResponse
       ELSE pc' = "done" /\ response' = Rejected(q)

\* line 161 returns; lines 164 and, when no top-up is needed, 174-186
CommonsReturn(pages) ==
    /\ UNCHANGED test_vars
    /\ pc = "commons"
    /\ calls' = Append(calls, "commons")
    /\ LET its == search_commons_images(pages)
       IN /\ items' = its
          /\ commons_items' = its
          /\ IF NeedsTopUp(its, limit)
             THEN pc' = "wikipedia" /\ response' = response
             ELSE /\ pc' = "done"
                  /\ response' = OkResponse(query, OrPlaceholders(its, query, limit))
    /\ UNCHANGED <<query, limit, wiki_items, fault>>

\* line 161 raises; lines 188-199
CommonsFault(f) ==
    /\ UNCHANGED test_vars
    /\ pc = "commons"
    /\ calls' = Append(calls, "commons")
    /\ fault' = f
    /\ response' = ErrorResponse(query, f)
    /\ pc' = "done"
    /\ UNCHANGED <<query, limit, items, commons_items, wiki_items>>

\* line 165 returns; lines 167-186
WikipediaReturn(pages) ==
    /\ UNCHANGED test_vars
    /\ pc = "wikipedia"
    /\ calls' = Append(calls, "wikipedia")
    /\ LET wiki == search_wikipedia_pages(pages)
           its == TopUp(items, Thumbnails(items), wiki, limit)
       IN /\ wiki_items' = wiki
          /\ items' = its
          /\ response' = OkResponse(query, OrPlaceholders(its, query, limit))
    /\ pc' = "done"
    /\ UNCHANGED <<query, limit, commons_items, fault>>

\* line 165 raises; lines 188-199
WikipediaFault(f) ==
    /\ UNCHANGED test_vars
    /\ pc = "wikipedia"
    /\ calls' = Append(calls, "wikipedia")
    /\ fault' = f
    /\ response' = ErrorResponse(query, f)
    /\ pc' = "done"
    /\ UNCHANGED <<query, limit, items, commons_items, wiki_items>>

\* The response has been sent; nothing of the request outlives it.
Respond ==
    /\ UNCHANGED test_vars
    /\ pc = "done"
    /\ pc' = "idle"
    /\ query' = << >>
    /\ limit' = LimitMin
    /\ items' = << >>
    /\ commons_items' = << >>
    /\ wiki_items' = << >>
    /\ calls' = << >>
    /\ fault' = None
    /\ response' = NoResponse

Next ==
    \/ \E q \in RawQueries, lim \in RawLimits : Request(q, lim)
    \/ \E pages \in CommonsAnswers(limit) : CommonsReturn(pages)
    \/ \E f \in Faults : CommonsFault(f)
    \/ \E pages \in WikiAnswers(limit) : WikipediaReturn(pages)
    \/ \E f \in Faults : WikipediaFault(f)
    \/ Respond

Spec == Init /\ [][Next]_vars

\* GET /test, lines 25-67
TestDatabase(imp, url, name) ==
    /\ test_input' = [import |-> imp, DATABASE_URL |-> url, DATABASE_NAME |-> name]
    /\ test_response' = test_database(imp, url, name)
    /\ UNCHANGED images_vars

NextTest ==
    \E imp \in ImportOutcomes, url \in EnvValues, name \in EnvValues :
        TestDatabase(imp, url, name)

SpecTest == Init /\ [][NextTest]_vars

\* ================================================================ claims
\* the handler has returned a response to a request that passed validation
Served == pc = "done" /\ response.status = 200

PairwiseDistinctThumbnails(its) ==
    \A i, j \in 1..Len(its) : i # j => its[i].thumbnail # its[j].thumbnail

AllFrom(its, src) == \A i \in 1..Len(its) : its[i].source = src

\* C1: every response to a valid /images request has count equal to the
\* number of items, and at least one item, whatever the upstream calls did.
C1_CountIsLengthAndPositive ==
    Served => response.count = Len(response.items) /\ response.count >= 1

\* C1 witness: both services answered with nothing usable, limit 1
C1_Witness ==
    /\ Served
    /\ calls = <<"commons", "wikipedia">>
    /\ fault = None
    /\ items = << >>
    /\ limit = LimitMin

\* C2: the count of a response never exceeds the requested limit, also when
\* a fault triggers the placeholder fallback.
C2_CountWithinLimit == Served => response.count <= limit

BothEmpty ==
    /\ Served
    /\ fault = None
    /\ calls = <<"commons", "wikipedia">>
    /\ commons_items = << >>
    /\ wiki_items = << >>

\* C4 as stated: when both services return nothing usable, exactly 6
\* placeholders are returned for every limit.
C4_ExactlySixWhenBothEmpty ==
    BothEmpty =>
        /\ Len(response.items) = 6
        /\ AllFrom(response.items, "picsum")
        /\ PairwiseDistinctThumbnails(response.items)

\* C4 amended: when both services return nothing usable, exactly
\* min(limit, 12) placeholders are returned, all from picsum, with pairwise
\* distinct thumbnails.
C4_MinLimitTwelveWhenBothEmpty ==
    BothEmpty =>
        /\ Len(response.items) = (IF limit < 12 THEN limit ELSE 12)
        /\ AllFrom(response.items, "picsum")
        /\ PairwiseDistinctThumbnails(response.items)

\* C4 witness: both empty with a limit above 12
C4_Witness == BothEmpty /\ limit = 13 /\ Len(response.items) = 12

\* C5 as stated: no thumbnail URL appears twice in any response.
C5_NoThumbnailTwice == Served => PairwiseDistinctThumbnails(response.items)

\* C5 amended: the thumbnail of a Wikipedia item of the response is the
\* thumbnail of no other item of the response (a thumbnail is repeated in the
\* response only where the Commons answer itself repeats it).
C5_WikipediaItemsAreNew ==
    Served =>
        \A i, j \in 1..Len(response.items) :
            (i # j /\ response.items[j].source = "wikipedia")
                => response.items[i].thumbnail # response.items[j].thumbnail

\* C5 witness: Wikipedia repeated a Commons thumbnail and one of its own, and
\* still contributed an item
C5_Witness ==
    /\ Served
    /\ fault = None
    /\ \E i \in 1..Len(wiki_items) : wiki_items[i].thumbnail \in Thumbnails(commons_items)
    /\ ~PairwiseDistinctThumbnails(wiki_items)
    /\ Len(response.items) > Len(commons_items)
    /\ commons_items # << >>

\* C6: when Commons returns exactly limit items, the response is those items
\* in that order, all from wikimedia_commons, and Wikipedia is not called.
C6_FullCommonsSkipsWikipedia ==
    (Served /\ fault = None /\ Len(commons_items) = limit) =>
        /\ response.items = commons_items
        /\ response.count = limit
        /\ AllFrom(response.items, "wikimedia_commons")
        /\ calls = <<"commons">>

\* C6 witness: Commons filled a limit of 3
C6_Witness ==
    Served /\ fault = None /\ Len(commons_items) = limit /\ limit = 3

\* indexes of the Wikipedia items the merge may keep: thumbnail not among the
\* Commons thumbnails and not that of an earlier Wikipedia item
Fresh ==
    { i \in 1..Len(wiki_items) :
        /\ \A k \in 1..Len(commons_items) :
               commons_items[k].thumbnail # wiki_items[i].thumbnail
        /\ \A j \in 1..(i - 1) : wiki_items[j].thumbnail # wiki_items[i].thumbnail }

NthFresh(n) == CHOOSE i \in Fresh : Cardinality({ j \in Fresh : j < i }) = n - 1

\* C8: without fault and with fewer than limit Commons items, the merged list
\* is the Commons items in order followed by the Wikipedia items in order,
\* each kept only if its thumbnail is new, until limit is reached or the
\* Wikipedia items run out.
C8_MergeKeepsOrderAndStopsAtLimit ==
    (Served /\ fault = None /\ Len(commons_items) < limit) =>
        LET k == Len(commons_items)
            room == limit - k
            kept == IF Cardinality(Fresh) < room THEN Cardinality(Fresh) ELSE room
        IN /\ Len(items) = k + kept
           /\ \A i \in 1..k : items[i] = commons_items[i]
           /\ \A n \in 1..kept : items[k + n] = wiki_items[NthFresh(n)]
           /\ items # << >> => response.items = items

\* C8 witness: the limit cut the top-up short after a duplicate was skipped
C8_Witness ==
    /\ Served
    /\ fault = None
    /\ commons_items # << >>
    /\ Len(commons_items) < limit
    /\ Len(items) = limit
    /\ Cardinality(Fresh) > limit - Len(commons_items)
    /\ Cardinality(Fresh) < Len(wiki_items)

\* C9: an empty merge is answered by min(limit, 12) picsum placeholders, the
\* i-th (from 0) seeded by "{query}-{i}", pairwise distinct, without error
\* field; a non-empty merge is answered without any picsum item.
C9_PlaceholdersOnlyWhenEmpty ==
    /\ (Served /\ fault = None /\ items = << >>) =>
          /\ Len(response.items) = (IF limit < 12 THEN limit ELSE 12)
          /\ \A i \in 1..Len(response.items) :
                /\ response.items[i].source = "picsum"
                /\ response.items[i].thumbnail =
                       <<"picsum.photos/seed/", query \o <<"-">>, i - 1, 800, 600>>
          /\ PairwiseDistinctThumbnails(response.items)
          /\ response.error = NoError
    /\ (Served /\ fault = None /\ items # << >>) =>
          \A i \in 1..Len(response.items) : response.items[i].source # "picsum"

\* C9 witness: an empty merge at the largest limit
C9_Witness ==
    Served /\ fault = None /\ items = << >> /\ limit = 50
        /\ Len(response.items) = 12

C7_MissingModuleReported ==
    test_input.import.kind = "ImportError" =>
        /\ test_response.database =
               <<"Database module not found (run enable-database first)">>
        /\ test_response.connection_status = <<"Not Connected">>
        /\ test_response.collections = << >>
        /\ (test_input.DATABASE_URL = Unset /\ test_input.DATABASE_NAME = Unset) =>
               /\ test_response.database_url = <<"Not Set">>
               /\ test_response.database_name = <<"Not Set">>

\* C7 witness: import failed with both variables unset
C7_Witness ==
    /\ test_input.import.kind = "ImportError"
    /\ test_input.DATABASE_URL = Unset
    /\ test_input.DATABASE_NAME = Unset
    /\ test_response.database_url = <<"Not Set">>

====
